---- MODULE Spec2Model ----
(***************************************************************************)
(* Model of main.py: the /analyze handler of the ATS resume service, its   *)
(* PDF text extractor and the retry wrapper around the Gemini call.        *)
(*                                                                         *)
(* Python strings are modelled as sequences of tokens (each token a TLA+   *)
(* string); string concatenation and f-string interpolation are \o, and    *)
(* "s contains t" is "t is a contiguous subsequence of s".                 *)
(***************************************************************************)
EXTENDS Integers, Sequences, FiniteSets, TLC

VARIABLES
    env,          \* "live": real service and disk; "stub": deterministic ones
    plan,         \* stub only: per prompt head, how many leading attempts fail
    uploads,      \* the upload folder: stored file name -> stored PDF
    nReq,         \* number of requests received so far
    pc,           \* position of the handler
    request,      \* the request being handled
    saved,        \* resume_file.save was called in this request
    extracted,    \* extract_text_from_pdf was called in this request
    resume_text,  \* analyze: resume_text
    prompts,      \* arguments of the wrapper invocations issued so far
    results,      \* values returned by the wrapper invocations so far
    events,       \* per invocation: underlying calls and sleeps, in order
    i,            \* query_gemini_with_retry: loop variable
    responses,    \* responses sent for the current request
    last          \* stub only: an earlier request and its response

vars == <<env, plan, uploads, nReq, pc, request, saved, extracted,
          resume_text, prompts, results, events, i, responses, last>>

-----------------------------------------------------------------------------
(* Bounds *)

MaxRequests == 2

-----------------------------------------------------------------------------
(* Program constants and string literals *)

retries_six == 5 + 1

retries == 5

AttemptRange == 0 .. (retries - 1)

FirstIndex_carried == i

FirstIndex == CHOOSE n \in AttemptRange : \A m \in AttemptRange : n <= m

recruiter_sys ==
    <<"You are an expert technical recruiter. Analyze the text provided and format the output in clean Markdown bullet points.">>

ats_sys ==
    <<"You are an advanced Applicant Tracking System (ATS). Compare the resume against the job description and provide a match score.">>

ResumeHead ==
    "Analyze this resume and list technical skills, experience summary, and education:\n\n"

JdHead ==
    "Analyze this Job Description and list required skills, responsibilities, and preferred qualifications:\n\n"

AtsHead ==
    "\n        Compare the parsed resume against the job description.\n        \n        Resume Analysis:\n        "

MatchLine == "Match percentage: XX%"

UnknownError == <<"Unknown AI Error">>

ExhaustedPrefix == <<"AI Error after 5 retries: ">>

resume_prompt(text) == <<ResumeHead>> \o text

jd_prompt(jd_text) == <<JdHead>> \o jd_text

ats_prompt_dup(parsed_resume, parsed_jd) ==
    <<AtsHead>> \o parsed_jd \o
    <<"\n        \n        Job Description Analysis:\n        ">> \o parsed_jd \o
    <<"\n        \n        Output Requirements:\n        1. Start exactly with \"",
      MatchLine,
      "\"\n        2. List Matching Skills.\n        3. List Missing Keywords/Skills.\n        4. Provide 3 tips for improvement.\n        ">>

ats_prompt(parsed_resume, parsed_jd) ==
    <<AtsHead>> \o parsed_resume \o
    <<"\n        \n        Job Description Analysis:\n        ">> \o parsed_jd \o
    <<"\n        \n        Output Requirements:\n        1. Start exactly with \"",
      MatchLine,
      "\"\n        2. List Matching Skills.\n        3. List Missing Keywords/Skills.\n        4. Provide 3 tips for improvement.\n        ">>

\* t occurs in s as a contiguous run of tokens
Contains(s, t) ==
    \E off \in 0 .. (Len(s) - Len(t)) :
        \A j \in 1 .. Len(t) : s[off + j] = t[j]

-----------------------------------------------------------------------------
(* PDF files and extract_text_from_pdf *)

TextPage(t) == [raises |-> FALSE, none |-> FALSE, text |-> <<t>>]
ImagePage   == [raises |-> FALSE, none |-> TRUE,  text |-> <<>>]
CorruptPage == [raises |-> TRUE,  none |-> FALSE, text |-> <<>>]

EmptyUpload == [readable |-> FALSE, pages |-> <<>>]

Pdfs ==
    { EmptyUpload,
      [readable |-> TRUE, pages |-> <<TextPage("Python, SQL, "), TextPage("3 years experience")>>],
      [readable |-> TRUE, pages |-> <<TextPage("Python, SQL, "), CorruptPage>>],
      [readable |-> TRUE, pages |-> <<TextPage("Python, SQL, "), CorruptPage, TextPage("3 years experience")>>],
      [readable |-> TRUE, pages |-> <<CorruptPage, TextPage("3 years experience")>>],
      [readable |-> TRUE, pages |-> <<ImagePage, TextPage("3 years experience")>>] }

\* page.extract_text() or ""
PageText(page) == IF page.none THEN <<>> ELSE page.text

RECURSIVE ReadPages_reset(_, _)
ReadPages_reset(pages, text) ==
    IF pages = <<>> THEN text
    ELSE IF Head(pages).raises THEN <<>>
    ELSE ReadPages_reset(Tail(pages), text \o PageText(Head(pages)))

\* the for loop over reader.pages; an exception leaves the loop and the
\* handler of line 40 keeps the text accumulated so far
RECURSIVE ReadPages(_, _)
ReadPages(pages, text) ==
    IF pages = <<>> THEN text
    ELSE IF Head(pages).raises THEN text
    ELSE ReadPages(Tail(pages), text \o PageText(Head(pages)))

extract_text_from_pdf(pdf) ==
    IF ~pdf.readable
    THEN [raised |-> FALSE, text |-> <<>>]
    ELSE [raised |-> FALSE, text |-> ReadPages(pdf.pages, <<>>)]

-----------------------------------------------------------------------------
(* Requests *)

Filenames == {"", "cv.pdf", "missing_dir/cv.pdf"}

\* names whose directory does not exist under the upload folder
UnwritableNames == {"missing_dir/cv.pdf"}

JobDescriptions ==
    { [form_jd |-> FALSE, job_description |-> <<>>],
      [form_jd |-> TRUE,  job_description |-> <<>>],
      [form_jd |-> TRUE,  job_description |-> <<"Looking for Python developer with 2+ years">>] }

Requests ==
    { [files_resume |-> f, filename |-> n, pdf |-> p,
       form_jd |-> j.form_jd, job_description |-> j.job_description] :
        f \in BOOLEAN, n \in Filenames, p \in Pdfs, j \in JobDescriptions }

\* a request without the file part carries no file name and no content, and
\* a file part without a name carries no content
WellFormed(r) ==
    /\ ~r.files_resume => r.filename = ""
    /\ r.filename = "" => r.pdf = EmptyUpload

NoRequest ==
    [files_resume |-> FALSE, filename |-> "", pdf |-> EmptyUpload,
     form_jd |-> FALSE, job_description |-> <<>>]

ValidationError_jd_first(r) ==
    IF ~r.files_resume THEN <<"Resume PDF is required">>
    ELSE IF ~r.form_jd \/ r.job_description = <<>> THEN <<"Job description is required">>
    ELSE IF r.filename = "" THEN <<"No selected file">>
    ELSE <<>>

\* lines 83-92; <<>> when the request passes
ValidationError(r) ==
    IF ~r.files_resume THEN <<"Resume PDF is required">>
    ELSE IF r.filename = "" THEN <<"No selected file">>
    ELSE IF ~r.form_jd \/ r.job_description = <<>> THEN <<"Job description is required">>
    ELSE <<>>

-----------------------------------------------------------------------------
(* The external generation service *)

PromptHeads == {ResumeHead, JdHead, AtsHead}

Plans == [PromptHeads -> 0 .. retries]

NoPlan == [h \in PromptHeads |-> 0]

\* response.text of a successful generate_content call on attempt n
GeneratedText(prompt, sys, n) == <<"reply#" \o ToString(n)>> \o prompt

\* str(e) of the exception raised by a failing call on attempt n
ErrorOf(prompt, sys, n) == <<"503 service unavailable #" \o ToString(n)>>

\* whether the call succeeds: anything on the live service, fixed per
\* prompt head and attempt on the stub
ServiceOutcomes(prompt, n) ==
    IF env = "stub" THEN {n >= plan[Head(prompt)]} ELSE BOOLEAN

DiskFaults == IF env = "stub" THEN {FALSE} ELSE BOOLEAN

-----------------------------------------------------------------------------
(* query_gemini_with_retry: one iteration of the loop *)

Returned(value) == [kind |-> "return", value |-> value, secs |-> 0]
Sleeping(secs)  == [kind |-> "sleep",  value |-> <<>>,  secs |-> secs]
Raising(msg)    == [kind |-> "raise",  value |-> msg,   secs |-> 0]

retry_step_linear(prompt, sys, n, ok) ==
    IF ok THEN Returned(GeneratedText(prompt, sys, n))
    ELSE IF n = retries - 1
         THEN Returned(ExhaustedPrefix \o ErrorOf(prompt, sys, n))
         ELSE Sleeping(2 * n)

retry_step_reraise(prompt, sys, n, ok) ==
    IF ok THEN Returned(GeneratedText(prompt, sys, n))
    ELSE IF n = retries - 1
         THEN Raising(ErrorOf(prompt, sys, n))
         ELSE Sleeping(2 ^ n)

\* lines 51-67: the body of the loop for loop variable n, given whether the
\* underlying generate_content call succeeds (both branches of line 53 make
\* the same call; the handler always passes a system instruction)
retry_step(prompt, sys, n, ok) ==
    IF ok THEN Returned(GeneratedText(prompt, sys, n))
    ELSE IF n = retries - 1
         THEN Returned(ExhaustedPrefix \o ErrorOf(prompt, sys, n))
         ELSE Sleeping(2 ^ n)

CallEvent(n, ok) == [op |-> IF ok THEN "ok" ELSE "fail", n |-> n]
SleepEvent(secs) == [op |-> "sleep", n |-> secs]

-----------------------------------------------------------------------------
(* The upload folder *)

save_append(folder, name, pdf) ==
    [n \in DOMAIN folder \cup {name} |->
        IF n # name THEN folder[n]
        ELSE IF name \in DOMAIN folder
             THEN [readable |-> pdf.readable, pages |-> folder[n].pages \o pdf.pages]
             ELSE pdf]

\* resume_file.save(pdf_path): creates or overwrites the file of that name
save(folder, name, pdf) ==
    [n \in DOMAIN folder \cup {name} |-> IF n = name THEN pdf ELSE folder[n]]

-----------------------------------------------------------------------------
(* Responses *)

ErrorResponse(status, msg) == [status |-> status, body |-> [error |-> msg]]

InternalError(msg) == ErrorResponse(500, <<"An internal error occurred: ">> \o msg)

OkResponse_strict(parsed_resume, parsed_jd, ats_result) ==
    IF Head(ats_result) = Head(ExhaustedPrefix)
    THEN ErrorResponse(502, ats_result)
    ELSE [status |-> 200,
          body   |-> [parsed_resume          |-> parsed_resume,
                      parsed_job_description |-> parsed_jd,
                      ats_result             |-> ats_result]]

\* lines 130-134
OkResponse(parsed_resume, parsed_jd, ats_result) ==
    [status |-> 200,
     body   |-> [parsed_resume          |-> parsed_resume,
                 parsed_job_description |-> parsed_jd,
                 ats_result             |-> ats_result]]

-----------------------------------------------------------------------------
(* Initial states *)

NoEvents == <<<<>>, <<>>, <<>>>>

InitLocals ==
    /\ uploads = <<>>
    /\ nReq = 0
    /\ pc = "idle"
    /\ request = NoRequest
    /\ saved = FALSE
    /\ extracted = FALSE
    /\ resume_text = <<>>
    /\ prompts = <<>>
    /\ results = <<>>
    /\ events = NoEvents
    /\ i = 0
    /\ responses = <<>>
    /\ last = <<>>

Init == env = "live" /\ plan = NoPlan /\ InitLocals

InitStub == env = "stub" /\ plan \in Plans /\ InitLocals

-----------------------------------------------------------------------------
(* Actions *)

\* a POST /analyze request arrives
Receive ==
    /\ pc = "idle"
    /\ nReq < MaxRequests
    /\ \E r \in Requests :
        /\ WellFormed(r)
        /\ request' = r
    /\ nReq' = nReq + 1
    /\ pc' = "validate"
    /\ UNCHANGED <<env, plan, uploads, saved, extracted, resume_text,
                   prompts, results, events, i, responses, last>>

\* lines 83-92
Validate ==
    /\ pc = "validate"
    /\ LET err == ValidationError(request) IN
        IF err # <<>>
        THEN /\ responses' = Append(responses, ErrorResponse(400, err))
             /\ pc' = "done"
        ELSE /\ responses' = responses
             /\ pc' = "save"
    /\ UNCHANGED <<env, plan, uploads, nReq, request, saved, extracted,
                   resume_text, prompts, results, events, i, last>>

\* lines 96-98, and 136-138 when the save raises
SaveAndExtract ==
    /\ pc = "save"
    /\ saved' = TRUE
    /\ \E fault \in DiskFaults :
        IF fault \/ request.filename \in UnwritableNames
        THEN /\ responses' = Append(responses,
                    InternalError(IF fault THEN <<"[Errno 28] No space left on device">>
                                  ELSE <<"[Errno 2] No such file or directory: ", request.filename>>))
             /\ pc' = "done"
             /\ UNCHANGED <<uploads, extracted, resume_text>>
        ELSE /\ uploads' = save(uploads, request.filename, request.pdf)
             /\ extracted' = TRUE
             /\ LET x == extract_text_from_pdf(uploads'[request.filename]) IN
                 IF x.raised
                 THEN /\ responses' = Append(responses, InternalError(x.text))
                      /\ pc' = "done"
                      /\ resume_text' = resume_text
                 ELSE /\ resume_text' = x.text
                      /\ pc' = "call"
                      /\ responses' = responses
    /\ UNCHANGED <<env, plan, nReq, request, prompts, results, events, i, last>>

\* lines 105-109 and 112-128: the next call of query_gemini_with_retry
Invoke ==
    /\ pc = "call"
    /\ LET s == Len(results) + 1 IN
        prompts' = Append(prompts,
            CASE s = 1 -> [prompt |-> resume_prompt(resume_text), sys |-> recruiter_sys]
              [] s = 2 -> [prompt |-> jd_prompt(request.job_description), sys |-> recruiter_sys]
              [] OTHER -> [prompt |-> ats_prompt(results[1], results[2]), sys |-> ats_sys])
    /\ i' = FirstIndex
    /\ pc' = "attempt"
    /\ UNCHANGED <<env, plan, uploads, nReq, request, saved, extracted,
                   resume_text, results, events, responses, last>>

\* lines 50-68: one iteration of the retry loop, sleep included, or the
\* fall-through of line 68 when the loop is over
Attempt ==
    /\ pc = "attempt"
    /\ LET s == Len(results) + 1
           p == prompts[s]
       IN
        IF i \notin AttemptRange
        THEN /\ results' = Append(results, UnknownError)
             /\ pc' = IF s = 3 THEN "respond" ELSE "call"
             /\ UNCHANGED <<events, i, responses>>
        ELSE \E ok \in ServiceOutcomes(p.prompt, i) :
            LET st == retry_step(p.prompt, p.sys, i, ok) IN
            /\ events' = [events EXCEPT ![s] =
                    @ \o <<CallEvent(i, ok)>> \o
                    (IF st.kind = "sleep" THEN <<SleepEvent(st.secs)>> ELSE <<>>)]
            /\ CASE st.kind = "return" ->
                        /\ results' = Append(results, st.value)
                        /\ pc' = IF s = 3 THEN "respond" ELSE "call"
                        /\ UNCHANGED <<i, responses>>
                 [] st.kind = "sleep" ->
                        /\ i' = i + 1
                        /\ UNCHANGED <<results, pc, responses>>
                 [] OTHER ->
                        /\ responses' = Append(responses, InternalError(st.value))
                        /\ pc' = "done"
                        /\ UNCHANGED <<results, i>>
    /\ UNCHANGED <<env, plan, uploads, nReq, request, saved, extracted,
                   resume_text, prompts, last>>

\* lines 130-134
Respond ==
    /\ pc = "respond"
    /\ responses' = Append(responses, OkResponse(results[1], results[2], results[3]))
    /\ pc' = "done"
    /\ UNCHANGED <<env, plan, uploads, nReq, request, saved, extracted,
                   resume_text, prompts, results, events, i, last>>

\* the response is delivered and the handler's locals are gone; on the stub
\* the test harness keeps one earlier run to compare later runs with: this
\* one, or the one it already kept
Complete ==
    /\ pc = "done"
    /\ pc' = "idle"
    /\ last' \in IF env # "stub" THEN {last}
                 ELSE IF last = <<>> THEN {<<[req |-> request, resp |-> responses]>>}
                 ELSE {last, <<[req |-> request, resp |-> responses]>>}
    /\ request' = NoRequest
    /\ saved' = FALSE
    /\ extracted' = FALSE
    /\ resume_text' = <<>>
    /\ prompts' = <<>>
    /\ results' = <<>>
    /\ events' = NoEvents
    /\ i' = 0
    /\ responses' = <<>>
    /\ UNCHANGED <<env, plan, uploads, nReq>>

Handle == Validate \/ SaveAndExtract \/ Invoke \/ Attempt \/ Respond

Next == Receive \/ Validate \/ SaveAndExtract \/ Invoke \/ Attempt \/ Respond \/ Complete

Spec == Init /\ [][Next]_vars

\* the handler is sequential code: it keeps running as long as every
\* underlying call returns or raises
FairSpec == Spec /\ WF_vars(Handle)

\* the same program against a deterministic stub of the service and a disk
\* without transient faults
StubSpec == InitStub /\ [][Next]_vars

-----------------------------------------------------------------------------
(* Reading the event log of an invocation *)

Stages == 1 .. 3

IsCall(e) == e.op # "sleep"
IsSleep(e) == e.op = "sleep"

\* the underlying generate_content calls of invocation s, in order
Calls(s) == SelectSeq(events[s], IsCall)

\* the durations of the sleeps of invocation s, in order
SleepSeconds(s) ==
    LET sl == SelectSeq(events[s], IsSleep) IN [j \in 1 .. Len(sl) |-> sl[j].n]

HasReturned(s) == s <= Len(results)

NoCallSucceeded(s) == \A j \in 1 .. Len(Calls(s)) : Calls(s)[j].op = "fail"

\* attempts 0..4 of invocation s were all made and all failed
AllFiveFailed(s) ==
    \A n \in 0 .. 4 : \E j \in 1 .. Len(Calls(s)) : Calls(s)[j] = [op |-> "fail", n |-> n]

TotalCalls == Len(Calls(1)) + Len(Calls(2)) + Len(Calls(3))

Invalid(r) ==
    \/ ~r.files_resume
    \/ r.filename = ""
    \/ ~r.form_jd
    \/ r.job_description = <<>>

-----------------------------------------------------------------------------
(* C1 *)

\* C1: an invocation of query_gemini_with_retry in which attempts 0..4 all
\* fail has slept exactly 1, 2, 4, 8, 16 seconds, in that order, by the time
\* it returns.
C1_FiveSleepsOnExhaustion ==
    \A s \in Stages :
        (HasReturned(s) /\ AllFiveFailed(s)) => SleepSeconds(s) = <<1, 2, 4, 8, 16>>

-----------------------------------------------------------------------------
(* C2 *)

\* fail 0, sleep 1, fail 1, sleep 2, ..., fail k-1, sleep 2^(k-1), ok k
SuccessTrace(k) ==
    [j \in 1 .. (2 * k + 1) |->
        IF j % 2 = 1
        THEN [op |-> IF j = 2 * k + 1 THEN "ok" ELSE "fail", n |-> (j - 1) \div 2]
        ELSE [op |-> "sleep", n |-> 2 ^ ((j \div 2) - 1)]]

SucceededOn(s, k) ==
    /\ HasReturned(s)
    /\ events[s] # <<>>
    /\ events[s][Len(events[s])] = [op |-> "ok", n |-> k]

\* C2: when the underlying call of an invocation succeeds on attempt k after
\* failing on attempts 0..k-1, the invocation made exactly k+1 calls with
\* exactly k sleeps of 1, 2, ..., 2^(k-1) seconds, each between a failed
\* attempt and the next one, and returned the text generated by attempt k.
C2_SucceedOnAttemptK ==
    \A s \in Stages : \A k \in 0 .. 4 :
        SucceededOn(s, k) =>
            /\ events[s] = SuccessTrace(k)
            /\ Len(Calls(s)) = k + 1
            /\ SleepSeconds(s) = [j \in 1 .. k |-> 2 ^ (j - 1)]
            /\ results[s] = <<"reply#" \o ToString(k)>> \o prompts[s].prompt

C2_Witness ==
    \E s \in Stages : SucceededOn(s, 4) /\ Len(SleepSeconds(s)) = 4

-----------------------------------------------------------------------------
(* C3 *)

\* C3: no invocation makes more than 5 underlying calls, and an invocation
\* that has returned without any call succeeding made exactly 5.
C3_AtMostFiveCalls ==
    \A s \in Stages :
        /\ Len(Calls(s)) <= 5
        /\ (HasReturned(s) /\ NoCallSucceeded(s)) => Len(Calls(s)) = 5

C3_Witness ==
    \E s \in Stages : HasReturned(s) /\ NoCallSucceeded(s) /\ Len(Calls(s)) = 5

-----------------------------------------------------------------------------
(* C4 *)

\* C4: a failure of the underlying call never becomes a failure of the
\* request (no 500 once a call was made); every value an invocation returned
\* is the text of its first successful call or, when none succeeded,
\* "AI Error after 5 retries: " followed by the message of the fifth
\* attempt's error; "Unknown AI Error" is never returned.
C4_FailuresReturnedAsText ==
    /\ \A j \in 1 .. Len(responses) : responses[j].status = 500 => TotalCalls = 0
    /\ \A s \in Stages : HasReturned(s) =>
        LET c == Calls(s) IN
        /\ results[s] # <<"Unknown AI Error">>
        /\ \/ /\ c # <<>>
              /\ c[Len(c)].op = "ok"
              /\ \A j \in 1 .. (Len(c) - 1) : c[j].op = "fail"
              /\ results[s] = <<"reply#" \o ToString(c[Len(c)].n)>> \o prompts[s].prompt
           \/ /\ Len(c) = 5
              /\ NoCallSucceeded(s)
              /\ c[5].n = 4
              /\ results[s] = <<"AI Error after 5 retries: ", "503 service unavailable #4">>

C4_Witness ==
    \E s \in Stages :
        /\ HasReturned(s)
        /\ AllFiveFailed(s)
        /\ results[s] = <<"AI Error after 5 retries: ", "503 service unavailable #4">>

-----------------------------------------------------------------------------
(* C5 *)

Rejection(msg) == <<[status |-> 400, body |-> [error |-> <<msg>>]]>>

\* C5: once validation has run, a request without the resume part has been
\* answered 400 "Resume PDF is required"; otherwise one with an empty file
\* name 400 "No selected file", whatever its job description; otherwise one
\* without a job description 400 "Job description is required"; and in all
\* three cases nothing was saved, extracted or sent to the service.
C5_ValidationOrder ==
    (pc \notin {"idle", "validate"} /\ Invalid(request)) =>
        /\ pc = "done"
        /\ ~request.files_resume => responses = Rejection("Resume PDF is required")
        /\ (request.files_resume /\ request.filename = "") =>
                responses = Rejection("No selected file")
        /\ (request.files_resume /\ request.filename # ""
              /\ (~request.form_jd \/ request.job_description = <<>>)) =>
                responses = Rejection("Job description is required")
        /\ ~saved
        /\ ~extracted
        /\ prompts = <<>>
        /\ TotalCalls = 0

C5_Witness ==
    /\ pc = "done"
    /\ request.files_resume
    /\ request.filename = ""
    /\ ~request.form_jd
    /\ responses = Rejection("No selected file")

-----------------------------------------------------------------------------
(* C6 *)

\* C6: an invocation is issued only after all earlier ones have returned,
\* and a request that passed validation and whose file was saved ends after
\* exactly three invocations, for the resume, the job description and the
\* match in that order, the third prompt containing the first and the second
\* returned value and the text "Match percentage: XX%".
C6_ThreeInvocationsInOrder ==
    /\ Len(prompts) <= Len(results) + 1
    /\ \A s \in Stages : events[s] # <<>> => (Len(prompts) >= s /\ Len(results) >= s - 1)
    /\ \A s \in Stages : (events[s] # <<>> /\ ~HasReturned(s)) => \A t \in Stages : t > s => events[t] = <<>>
    /\ (pc = "done" /\ extracted) =>
        /\ Len(prompts) = 3
        /\ Len(results) = 3
        /\ prompts[1].prompt[1] = ResumeHead
        /\ prompts[2].prompt[1] = JdHead
        /\ prompts[3].prompt[1] = AtsHead
        /\ Contains(prompts[1].prompt, resume_text)
        /\ Contains(prompts[2].prompt, request.job_description)
        /\ Contains(prompts[3].prompt, results[1])
        /\ Contains(prompts[3].prompt, results[2])
        /\ Contains(prompts[3].prompt, <<"Match percentage: XX%">>)

C6_Witness ==
    /\ pc = "done"
    /\ extracted
    /\ Len(prompts) = 3
    /\ results[1] # results[2]
    /\ resume_text = <<"Python, SQL, ", "3 years experience">>

-----------------------------------------------------------------------------
(* C7 *)

SaveRaised == saved /\ ~extracted

C7_Status ==
    /\ Len(responses) <= 1
    /\ pc = "done" <=> Len(responses) = 1
    /\ pc = "done" =>
        LET r == responses[1] IN
        /\ r.status \in {200, 400, 500}
        /\ r.status = 400 <=> Invalid(request)
        /\ r.status = 500 <=> (~Invalid(request) /\ SaveRaised)
        /\ r.status = 500 =>
            /\ DOMAIN r.body = {"error"}
            /\ Len(r.body.error) >= 2
            /\ r.body.error[1] = "An internal error occurred: "
        /\ r.status = 200 =>
            /\ Len(results) = 3
            /\ r.body = [parsed_resume          |-> results[1],
                         parsed_job_description |-> results[2],
                         ats_result             |-> results[3]]
        /\ (\E s \in Stages : HasReturned(s) /\ NoCallSucceeded(s)) => r.status = 200

\* C7: every request is answered, exactly once: 400 iff validation fails,
\* 500 with "An internal error occurred: <message>" iff the file save raised
\* after validation, otherwise 200 with the three values the wrapper
\* returned; an invocation that exhausted its retries leaves the status 200.
C7_OneResponsePerRequest ==
    /\ []C7_Status
    /\ (pc = "validate") ~> (pc = "done")

C7_Witness ==
    /\ pc = "done"
    /\ responses[1].status = 200
    /\ \A s \in Stages : AllFiveFailed(s)

-----------------------------------------------------------------------------
(* C8 *)

RECURSIVE Concat(_)
Concat(texts) == IF texts = <<>> THEN <<>> ELSE Head(texts) \o Concat(Tail(texts))

\* the pages of a PDF that come before its first failing page
PagesBeforeFailure(pdf) ==
    LET bad == {j \in 1 .. Len(pdf.pages) : pdf.pages[j].raises}
        n   == IF bad = {} THEN Len(pdf.pages)
               ELSE (CHOOSE j \in bad : \A m \in bad : j <= m) - 1
    IN  IF pdf.readable THEN SubSeq(pdf.pages, 1, n) ELSE <<>>

TextOf(pages) ==
    Concat([j \in 1 .. Len(pages) |-> IF pages[j].none THEN <<>> ELSE pages[j].text])

\* C8 as stated: the extractor's result is the text of all pages, or empty
\* as soon as the file or any one page fails to parse.
C8_EmptyOnAnyFailure ==
    extracted =>
        resume_text =
            IF request.pdf.readable /\ \A j \in 1 .. Len(request.pdf.pages) : ~request.pdf.pages[j].raises
            THEN TextOf(request.pdf.pages)
            ELSE <<>>

\* C8 amended: the extractor never raises (a request whose file was saved is
\* never answered 500) and its result is the text of the pages that come
\* before the first failing page: all pages when none fails, none when the
\* file cannot be opened.
C8_TextBeforeFirstFailure ==
    extracted =>
        /\ resume_text = TextOf(PagesBeforeFailure(request.pdf))
        /\ \A j \in 1 .. Len(responses) : responses[j].status # 500

C8_Witness ==
    /\ extracted
    /\ Len(request.pdf.pages) = 3
    /\ request.pdf.pages[2].raises
    /\ resume_text = <<"Python, SQL, ">>

-----------------------------------------------------------------------------
(* C9 *)

\* C9: against the stub, a request with the same inputs as an earlier one
\* gets the same status and body as the earlier one got.
C9_SameRequestSameResponse ==
    (pc = "done" /\ last # <<>> /\ last[1].req = request) => last[1].resp = responses

C9_Witness ==
    /\ pc = "done"
    /\ last # <<>>
    /\ last[1].req = request
    /\ responses[1].status = 200
    /\ request.filename \in DOMAIN uploads
    /\ Len(request.pdf.pages) = 2
    /\ TotalCalls > 3

-----------------------------------------------------------------------------
(* C10 *)

====
